---- MODULE Spec2Model ----
(***************************************************************************)
(* Model of apps/spectral_anomaly/tasks.py: the chunked compositing and    *)
(* anomaly pipeline.                                                       *)
(*                                                                         *)
(*   Spec       the task pipeline: the run() chain (parse, validate,       *)
(*              chunk, start), the group of processing_task workers, the   *)
(*              chord callback recombine_geographic_chunks and the chained *)
(*              create_output_products and task_clean_up, with the shared  *)
(*              cancellation signal and the task record.                   *)
(*   PixelSpec  the data path of processing_task for one pixel of one      *)
(*              chunk: masks, composite, spectral index, out-of-range and  *)
(*              no-data masks, difference; then the same pixel in          *)
(*              create_output_products: image, NetCDF and GeoTIFF.         *)
(*   RedeliverySpec                                                        *)
(*              one processing_task delivered twice (acks_late) over the   *)
(*              same data, for the same pixel.                             *)
(***************************************************************************)
EXTENDS Integers, Sequences, FiniteSets, TLC

(* ------------------------------ bounds --------------------------------- *)
\* number of geographic chunks create_geographic_chunks returns
NumChunks == 2
\* most scenes one chunk holds in one time window
MaxScenes == 2
\* most acquisitions in the time column of the modelled pixel
MaxObs == 2
\* most times the message of one processing_task is delivered again
MaxRedeliveries == 1

Chunks == 0..(NumChunks - 1)
\* for composite_name in ['baseline', 'analysis']
WindowNames == {"baseline", "analysis"}
None == "None"

VARIABLES
  \* ---- environment of the pipeline
  scenes,             \* data cube: scenes[c][w], scenes of window w over chunk c
  measurements_valid, \* answer of dc.validate_measurements
  temp_exists,        \* os.path.exists(task.get_temp_path())
  cancelled,          \* the shared cancellation signal
  \* ---- task record (SpectralAnomalyTask row)
  task,
  \* ---- run() chain
  pc,                 \* position in the chain parse -> validate -> chunk -> start
  arg,                \* value the previous stage returned to the next one
  num_scn_per_chk,    \* argument of every processing_task
  open_dc,            \* the stages of the chain whose DataAccessApi is open
  \* ---- group of processing_task
  wpc,                \* wpc[c]: position of the worker of chunk c
  result,             \* result[c]: "pending", None or "artifact"
  chunk_files,        \* chunk_files[c]: intermediate files written for chunk c
  open_task_dc,       \* the chunks whose processing_task holds an open DataAccessApi
  redeliveries,         \* redeliveries[c]: times the message of chunk c was delivered again
  \* ---- chord callback and the chained stages
  rpc, rres,          \* recombine_geographic_chunks: position, return value
  mosaic, mosaic_chunks,
  chunk_order,        \* the non-null artifacts in the order of the list `chunks`
  mosaic_data,        \* mosaic_data[kind][cell]: content of the three mosaics
  opc, ores,          \* create_output_products: position, return value
  products,
  cpc,                \* task_clean_up
  \* ---- history
  seen_at,            \* the stages of which a checkpoint observed the cancellation
  seen_by,            \* seen_by[c]: the worker of chunk c observed it
  increments,         \* increments[c][w]: times worker c recorded progress of w
  \* ---- data path of processing_task, one pixel of one chunk
  spectral_index,          \* task.query_type.result_id
  composite_threshold,     \* task.composite_threshold_min / _max
  ppc,                     \* position in processing_task
  time_column_data,        \* the loaded time column: one record per acquisition
  time_column_clean_mask,  \* the combined clean mask handed to the compositing
  composites,              \* composites[composite_name]
  composites_out_of_range, \* composites_out_of_range[composite_name]
  diff_composite,
  composite_out_of_range,
  composite_no_data,
  composite_pixel,         \* the composite of the window at hand, before the index
  spec_ind_result,         \* what the index function returned for the composite
  \* ---- data path of create_output_products, the same pixel of the mosaic
  change_threshold,        \* task.change_threshold_min / _max
  image_data,              \* the pixel of the PNG, as RGBA
  netcdf_out,              \* the pixel in data_netcdf.nc, band by band
  geotiff_out,             \* the pixel in data_tif.tif, band by band
  \* ---- redelivery of one processing_task (acks_late), the same pixel
  datacube,                \* datacube[w]: the time column the data cube holds
  answers,                 \* answers[w]: what the compositing and the index
                           \* function return for the data of window w
  delivery,                \* 0: not delivered, 1: first execution, 2: second
  metadata,                \* the metadata accumulator of the execution
  chunk_result,            \* the three files and the metadata last returned
  first_result             \* history: what the first execution returned

envVars  == <<scenes, measurements_valid, temp_exists>>
chainVars == <<pc, arg, num_scn_per_chk, open_dc>>
groupVars == <<wpc, result, chunk_files, seen_by, increments, open_task_dc, redeliveries>>
tailVars == <<rpc, rres, mosaic, mosaic_chunks, chunk_order, mosaic_data, opc, ores, products, cpc>>
pipeVars == <<envVars, cancelled, task, chainVars, groupVars, tailVars, seen_at>>
outVars == <<change_threshold, image_data, netcdf_out, geotiff_out>>
redeliveryVars == <<datacube, answers, delivery, metadata, chunk_result, first_result>>
pixelVars == <<spectral_index, composite_threshold, ppc, time_column_data,
               time_column_clean_mask, composite_pixel, composites, composites_out_of_range,
               diff_composite, composite_out_of_range, composite_no_data,
               spec_ind_result, composite_pixel, outVars, redeliveryVars>>

(* ------------------------------ helpers -------------------------------- *)
RECURSIVE SumTo(_, _)
\* sum of f[0..n-1]
SumTo(f, n) == IF n = 0 THEN 0 ELSE f[n - 1] + SumTo(f, n - 1)

\* Python 3 round(v / n): round half to even
Round(v, n) ==
  LET q == v \div n
      r == v % n
  IN  IF 2 * r < n THEN q
      ELSE IF 2 * r > n THEN q + 1
      ELSE IF q % 2 = 0 THEN q ELSE q + 1

\* num_scenes[composite_name]: loop of lines 222-235
num_scenes(w) == SumTo([c \in Chunks |-> scenes[c][w]], NumChunks)

\* len(dc.list_acquisition_dates(**window_parameters)) over the whole extent
acquisitions(w) == num_scenes(w)

\* check_cancel_task(self, task): poll of the cancellation signal
check_cancel_task == cancelled

\* task.update_status(status, message)
update_status(t, s, m) == [t EXCEPT !.status = s, !.message = m]

\* some checkpoint has observed the cancellation
cancel_seen == seen_at # {} \/ \E c \in Chunks : seen_by[c]

\* the messages of lines 135-136, 141-142 and 152
BaselineMessage ==
  "There are no acquisitions for this parameter set for the baseline time period."
AnalysisMessage ==
  "There are no acquisitions for this parameter set for the analysis time period."
MeasurementsMessage ==
  "The provided Satellite model measurements aren't valid for the product."

ChunkFileKinds == {"nc", "out_of_range", "no_data"}
ProductKinds == {"netcdf", "geotiff", "png"}

(* --------------- processing_task: the data of one pixel ---------------- *)
\* task.satellite.no_data_value
no_data_value == -9999

SpectralIndices == {"ndvi", "ndwi", "ndbi", "evi", "fractional_cover"}
SingleBandIndices == {"ndvi", "ndbi", "ndwi", "evi"}

\* spectral_indices_range_map
spectral_indices_range_map(index) ==
  IF index = "fractional_cover" THEN <<0, 100>> ELSE <<-1, 1>>

\* the derived bands an index adds to the composite
IndexBands(index) ==
  IF index = "fractional_cover" THEN {"bs", "pv", "npv"} ELSE {index}

\* a value of the first measurement band that is a reflectance
GoodValue == 500

\* One acquisition of the pixel: clean is the answer of the satellite's clean
\* mask function, valid the answer of landsat_clean_mask_invalid, ref the value
\* of the first measurement band. The no-data value is outside the valid
\* reflectance range.
Observations ==
  {o \in [clean : BOOLEAN, valid : BOOLEAN, ref : {no_data_value, GoodValue}] :
     o.ref = no_data_value => ~o.valid}

RECURSIVE SeqsUpTo(_, _)
\* the sequences over S of length 1..n
SeqsUpTo(S, n) ==
  IF n = 0 THEN {}
  ELSE {<<x>> : x \in S}
       \cup {Append(q, x) : q \in SeqsUpTo(S, n - 1), x \in S}

\* values the spectral index functions return for a composite pixel, in units
\* of the index. The functions are given the composite as it is, no-data pixels
\* included, and EVI returns no_data outside [-1, 1] (line 392): the derived
\* band may hold the no-data value.
IndexValues(index) == {-1, 0, 1, no_data_value}

\* values frac_coverage_classify returns for a band of a clean pixel: the bands
\* can sum up to 106 (lines 343-345)
FracRawValues == {0, 53, 106, 159}

\* thresholds the user may give for an index
ThresholdValues(index) ==
  IF index = "fractional_cover" THEN {0, 50, 100} ELSE {-1, 0, 1}

\* line 322: clean_mask | invalid_mask | no_data_mask
combine_clean_masks(clean, valid, has_data) == clean \/ valid \/ has_data

\* lines 315-322 for the acquisition o
clean_mask_of(o) == combine_clean_masks(o.clean, o.valid, o.ref # no_data_value)

\* np.interp(x, (0, 106), (0, 100)) of lines 347-351: linear inside the
\* interval, the end values outside of it
frac_cov_interp(x) ==
  IF x <= 0 THEN 0
  ELSE IF x >= 106 THEN 100
  ELSE (x * 100) \div 106

\* lines 359-373 with <= in place of <: a value at a bound is out of range
out_of_range_inclusive(composite, thr) ==
  \E b \in DOMAIN composite.index :
    composite.index[b] <= thr.min \/ thr.max <= composite.index[b]

\* lines 359-373: a band below composite_threshold_min or above _max
out_of_range(composite, thr) ==
  \E b \in DOMAIN composite.index :
    composite.index[b] < thr.min \/ thr.max < composite.index[b]

\* the two windows combined with xr_and in place of xr_or
combine_out_of_range_and(oor) == oor["baseline"] /\ oor["analysis"]

\* line 387: xr_or(*composites_out_of_range.values())
combine_out_of_range(oor) == oor["baseline"] \/ oor["analysis"]

\* lines 389-407 with the test of line 392 left out: the derived band of every
\* single-band index is tested
combine_no_data_any_index(index, comps) ==
  IF index \in SingleBandIndices
    THEN \/ comps["baseline"].ref = no_data_value
         \/ comps["analysis"].ref = no_data_value
         \/ comps["baseline"].index[index] = no_data_value
         \/ comps["analysis"].index[index] = no_data_value
    ELSE \/ \E b \in {"bs", "pv", "npv"} : comps["baseline"].index[b] = no_data_value
         \/ \E b \in {"bs", "pv", "npv"} : comps["baseline"].index[b] = no_data_value

\* lines 389-407: the combined no-data mask of an index
combine_no_data(index, comps) ==
  IF index \in SingleBandIndices
    THEN LET by_ref == \/ comps["baseline"].ref = no_data_value
                       \/ comps["analysis"].ref = no_data_value
         IN  IF index = "evi"
               THEN \/ by_ref
                    \/ comps["baseline"].index[index] = no_data_value
                    \/ comps["analysis"].index[index] = no_data_value
               ELSE by_ref
    ELSE \/ \E b \in {"bs", "pv", "npv"} : comps["baseline"].index[b] = no_data_value
         \/ \E b \in {"bs", "pv", "npv"} : comps["baseline"].index[b] = no_data_value

\* the data variables of a composite: the measurement bands (the first one
\* stands for all of them) and the derived bands
MeasurementBand == "measurement"
measurements_list == {MeasurementBand}
data_vars(composite) ==
  [b \in measurements_list \cup DOMAIN composite.index |->
     IF b \in measurements_list THEN composite.ref ELSE composite.index[b]]

\* Dataset.drop(names)
drop(dataset, names) == [b \in (DOMAIN dataset) \ names |-> dataset[b]]

\* line 385 the other way round: baseline minus analysis
subtract_reversed(analysis, baseline) ==
  [b \in DOMAIN analysis |-> baseline[b] - analysis[b]]

\* line 385: composites['analysis'] - composites['baseline'], band by band
subtract(analysis, baseline) ==
  [b \in DOMAIN analysis |-> analysis[b] - baseline[b]]

\* lines 385 and 410: the difference composite, the measurement bands dropped
difference(comps) ==
  drop(subtract(data_vars(comps["analysis"]), data_vars(comps["baseline"])),
       measurements_list)

\* no task is followed through its redeliveries
RedeliveryIdle ==
  /\ datacube = <<>>
  /\ answers = <<>>
  /\ delivery = 0
  /\ metadata = <<>>
  /\ chunk_result = <<>>
  /\ first_result = <<>>

\* the data path is not running
PixelIdle ==
  /\ RedeliveryIdle
  /\ spectral_index = None
  /\ composite_threshold = None
  /\ ppc = "idle"
  /\ time_column_data = <<>>
  /\ time_column_clean_mask = <<>>
  /\ composites = <<>>
  /\ composites_out_of_range = <<>>
  /\ diff_composite = None
  /\ composite_out_of_range = None
  /\ composite_no_data = None
  /\ spec_ind_result = <<>>
  /\ composite_pixel = <<>>
  /\ change_threshold = <<>>
  /\ image_data = <<>>
  /\ netcdf_out = <<>>
  /\ geotiff_out = <<>>

\* the pipeline around the data path: one run that has launched its workers
PipelineIdle ==
  /\ scenes = [c \in Chunks |-> [w \in WindowNames |-> 1]]
  /\ measurements_valid = TRUE
  /\ temp_exists = TRUE
  /\ cancelled = FALSE
  /\ task = [status |-> "WAIT", message |-> "Starting processing.", complete |-> FALSE,
             total_scenes |-> 2 * NumChunks, scenes_processed |-> 0]
  /\ pc = "chain_done"
  /\ arg = "True"
  /\ num_scn_per_chk = [w \in WindowNames |-> 1]
  /\ wpc = [c \in Chunks |-> "entry"]
  /\ result = [c \in Chunks |-> "pending"]
  /\ chunk_files = [c \in Chunks |-> {}]
  /\ rpc = "pending" /\ rres = None
  /\ mosaic = {} /\ mosaic_chunks = {}
  /\ chunk_order = <<>> /\ mosaic_data = <<>>
  /\ opc = "pending" /\ ores = None
  /\ products = {}
  /\ cpc = "pending"
  /\ seen_at = {}
  /\ seen_by = [c \in Chunks |-> FALSE]
  /\ increments = [c \in Chunks |-> [w \in WindowNames |-> 0]]
  /\ open_dc = {} /\ open_task_dc = {}
  /\ redeliveries = [c \in Chunks |-> 0]

\* lines 297-303: the task's index and thresholds
PixelInit ==
  /\ PipelineIdle
  /\ RedeliveryIdle
  /\ spectral_index \in SpectralIndices
  /\ composite_threshold \in
       {t \in [min : ThresholdValues(spectral_index), max : ThresholdValues(spectral_index)] :
          t.min <= t.max}
  /\ ppc = "load_baseline"
  /\ time_column_data = <<>>
  /\ time_column_clean_mask = <<>>
  /\ composites = <<>>
  /\ composites_out_of_range = <<>>
  /\ diff_composite = None
  /\ composite_out_of_range = None
  /\ composite_no_data = None
  /\ spec_ind_result = <<>>
  /\ composite_pixel = <<>>
  /\ change_threshold = <<>>
  /\ image_data = <<>>
  /\ netcdf_out = <<>>
  /\ geotiff_out = <<>>

\* lines 308-322 of window w: the load and the combined clean mask
pixel_load(w) ==
  /\ ppc = "load_" \o w
  /\ \E data \in SeqsUpTo(Observations, MaxObs) :
       /\ time_column_data' = data
       /\ time_column_clean_mask' = [i \in DOMAIN data |-> clean_mask_of(data[i])]
  /\ ppc' = "composite_" \o w
  /\ UNCHANGED <<pipeVars, spectral_index, composite_threshold, composites,
                 composites_out_of_range, diff_composite, composite_out_of_range,
                 composite_no_data, spec_ind_result, composite_pixel, outVars, redeliveryVars>>

\* task.get_processing_method()(data, clean_mask=..., no_data=...): a sample of
\* the acquisitions the mask lets through, the no-data value where there is none
composite_of(data, mask) ==
  IF \E i \in DOMAIN data : mask[i]
    THEN {data[i] : i \in {j \in DOMAIN data : mask[j]}}
    ELSE {[clean |-> FALSE, valid |-> FALSE, ref |-> no_data_value]}

\* lines 329-332: composite_invalid_mask | composite_no_data_mask
composite_clean_mask(o) == o.valid \/ o.ref # no_data_value

\* lines 335-338: the bands the index function returns for the composite pixel
\* o; frac_coverage_classify gives the no-data value where its clean mask is
\* false
index_results(index, o) ==
  IF index \in SingleBandIndices
    THEN [{index} -> IndexValues(index)]
    ELSE IF composite_clean_mask(o)
           THEN [{"bs", "pv", "npv"} -> FracRawValues]
           ELSE [{"bs", "pv", "npv"} -> {no_data_value}]

\* lines 339-351: the derived bands of the composite, those of fractional cover
\* rescaled band by band
derived_bands(index, res) ==
  IF index \in SingleBandIndices
    THEN res
    ELSE [b \in {"bs", "pv", "npv"} |-> frac_cov_interp(res[b])]

\* lines 325-332 of window w: the composite and its clean mask
pixel_composite(w) ==
  /\ ppc = "composite_" \o w
  /\ \E o \in composite_of(time_column_data, time_column_clean_mask) :
       composite_pixel' = [valid |-> o.valid, ref |-> o.ref]
  \* the time column is not read again before the next load replaces it
  /\ time_column_data' = <<>>
  /\ time_column_clean_mask' = <<>>
  /\ ppc' = "index_" \o w
  /\ UNCHANGED <<pipeVars, spectral_index, composite_threshold, composites,
                 composites_out_of_range, diff_composite, composite_out_of_range,
                 composite_no_data, spec_ind_result, outVars, redeliveryVars>>

\* lines 335-380 of window w: index, rescaling, out-of-range mask
pixel_index(w) ==
  /\ ppc = "index_" \o w
  /\ \E res \in index_results(spectral_index, composite_pixel) :
       LET with_index == [ref |-> composite_pixel.ref,
                          index |-> derived_bands(spectral_index, res)]
       IN  /\ spec_ind_result' = res
           /\ composites' = composites @@ (w :> with_index)
           /\ composites_out_of_range' =
                composites_out_of_range @@ (w :> out_of_range(with_index, composite_threshold))
  /\ composite_pixel' = <<>>
  /\ ppc' = IF w = "baseline" THEN "load_analysis" ELSE "combine"
  /\ UNCHANGED <<pipeVars, spectral_index, composite_threshold, time_column_data,
                 time_column_clean_mask, diff_composite, composite_out_of_range,
                 composite_no_data, outVars, redeliveryVars>>

\* lines 383-410: difference composite and combined masks
pixel_combine ==
  /\ ppc = "combine"
  /\ diff_composite' = difference(composites)
  /\ composite_out_of_range' = combine_out_of_range(composites_out_of_range)
  /\ composite_no_data' = combine_no_data(spectral_index, composites)
  \* the loop is over and its locals are not read again
  /\ spec_ind_result' = <<>>
  /\ ppc' = "done"
  /\ UNCHANGED <<pipeVars, spectral_index, composite_threshold, time_column_data,
                 time_column_clean_mask, composites, composites_out_of_range,
                 composite_pixel, outVars, redeliveryVars>>

(* ------------- create_output_products: the data of one pixel ------------ *)
\* An optional number (None or a value) is <<>> or <<value>>.
Optional(S) == {<<>>} \cup {<<v>> : v \in S}

\* change thresholds the user may give for an index: none, one or both
ChangeThresholdValues(index) ==
  IF index = "fractional_cover" THEN {-50, 0, 50} ELSE {-1, 0, 1}
ChangeThresholds(index) ==
  {t \in [min : Optional(ChangeThresholdValues(index)),
          max : Optional(ChangeThresholdValues(index))] :
     (t.min # <<>> /\ t.max # <<>>) => t.min[1] <= t.max[1]}

\* A float of a NumPy array: NaN or a number.
NaN == [nan |-> TRUE, v |-> 0]
Float(x) == [nan |-> FALSE, v |-> x]
\* comparisons with NaN are false
float_lt(a, b) == ~a.nan /\ ~b.nan /\ a.v < b.v

\* mpl.colors.to_rgba('red'), 'black', 'white' and line 546, as 8 bit RGBA
Red == <<255, 0, 0, 255>>
Black == <<0, 0, 0, 255>>
White == <<255, 255, 255, 255>>
Transparent == <<0, 0, 0, 0>>

\* lines 500-503: the band that is drawn
plotted_band(index) == IF index = "fractional_cover" THEN "pv" ELSE index

\* line 504: diff_comp_np_arr[composite_no_data] = np.nan
mask_no_data(value, no_data) == IF no_data THEN NaN ELSE Float(value)

\* lines 519-522: np.interp(diff_comp_np_arr, (diff_min_possible,
\* diff_max_possible), (0, 1)), in quarters: the end values outside the interval
image_quarters(x, index) ==
  LET spec_ind_min == spectral_indices_range_map(index)[1]
      spec_ind_max == spectral_indices_range_map(index)[2]
      diff_min_possible == spec_ind_min - spec_ind_max
      diff_max_possible == spec_ind_max - spec_ind_min
  IN  IF x.nan THEN NaN
      ELSE IF x.v <= diff_min_possible THEN Float(0)
      ELSE IF x.v >= diff_max_possible THEN Float(4)
      ELSE Float((4 * (x.v - diff_min_possible)) \div (diff_max_possible - diff_min_possible))

\* plt.get_cmap('RdYlGn') sampled at 0, 1/4, 1/2, 3/4 and 1; NaN gets the
\* colormap's bad color
RdYlGn(q) ==
  IF q.nan THEN <<0, 0, 0, 0>>
  ELSE CASE q.v = 0 -> <<165, 0, 38, 255>>
         [] q.v = 1 -> <<248, 141, 82, 255>>
         [] q.v = 2 -> <<255, 255, 191, 255>>
         [] q.v = 3 -> <<134, 203, 102, 255>>
         [] q.v = 4 -> <<0, 104, 55, 255>>

\* lines 528 and 537: cng_min is not None and cng_max is not None
change_range_given(cng) == cng.min # <<>> /\ cng.max # <<>>

\* lines 528-533 with the gradient in both branches
base_color_gradient(arr, index, cng) == RdYlGn(image_quarters(arr, index))

\* lines 528-533 with red as soon as one of the two thresholds is given
base_color_any_bound(arr, index, cng) ==
  IF cng.min # <<>> \/ cng.max # <<>> THEN Red ELSE RdYlGn(image_quarters(arr, index))

\* lines 528-533: red, or the red-green gradient
base_color(arr, index, cng) ==
  IF change_range_given(cng) THEN Red ELSE RdYlGn(image_quarters(arr, index))

\* lines 536-539: black where the change is outside the change range
color_change_out_of_range(image, arr, cng) ==
  IF change_range_given(cng)
    THEN IF float_lt(arr, Float(cng.min[1])) \/ float_lt(Float(cng.max[1]), arr)
           THEN Black ELSE image
    ELSE image

\* lines 542-543: white where a composite was out of range
color_composite_out_of_range(image, orig_composite_out_of_range) ==
  IF orig_composite_out_of_range THEN White ELSE image

\* lines 546-547: transparent where a composite was no-data
color_no_data(image, no_data) == IF no_data THEN Transparent ELSE image

\* lines 528-547 with the no-data layer first and the range layers after it
color_pixel_no_data_first(arr, index, cng, oor, no_data) ==
  color_composite_out_of_range(
    color_change_out_of_range(color_no_data(base_color(arr, index, cng), no_data),
                              arr, cng),
    oor)

\* lines 528-547 with the change range layer after the composite range layer
color_pixel_change_last(arr, index, cng, oor, no_data) ==
  color_no_data(
    color_change_out_of_range(
      color_composite_out_of_range(base_color(arr, index, cng), oor), arr, cng),
    no_data)

\* lines 528-547: the four layers in the order of the code
color_pixel(arr, index, cng, oor, no_data) ==
  color_no_data(
    color_composite_out_of_range(
      color_change_out_of_range(base_color(arr, index, cng), arr, cng), oor),
    no_data)

\* lines 513-516: the bands of the GeoTIFF
bands(index) == IF index = "fractional_cover" THEN {"bs", "pv", "npv"} ELSE {index}

\* The dataset after line 504: diff_comp_np_arr is the array of the plotted
\* band itself (.values), so the assignment writes into the dataset.
dataset_after_mask(diff, index, no_data) ==
  [b \in DOMAIN diff |->
     IF b = plotted_band(index) THEN mask_no_data(diff[b], no_data) ELSE Float(diff[b])]

\* lines 489-553 for the pixel: the mosaic holds what processing_task wrote for it
pixel_output ==
  /\ ppc = "done"
  /\ \E cng \in ChangeThresholds(spectral_index) :
       LET diff_comp_np_arr ==
             mask_no_data(diff_composite[plotted_band(spectral_index)], composite_no_data)
           dataset == dataset_after_mask(diff_composite, spectral_index, composite_no_data)
       IN  /\ change_threshold' = cng
           /\ image_data' = color_pixel(diff_comp_np_arr, spectral_index, cng,
                                        composite_out_of_range, composite_no_data)
           /\ netcdf_out' = dataset
           /\ geotiff_out' = [b \in bands(spectral_index) |-> dataset[b]]
  /\ ppc' = "output"
  /\ UNCHANGED <<pipeVars, spectral_index, composite_threshold, time_column_data,
                 time_column_clean_mask, composites, composites_out_of_range,
                 diff_composite, composite_out_of_range, composite_no_data,
                 spec_ind_result, composite_pixel, redeliveryVars>>

PixelNext ==
  \/ \E w \in WindowNames : pixel_load(w)
  \/ \E w \in WindowNames : pixel_composite(w)
  \/ \E w \in WindowNames : pixel_index(w)
  \/ pixel_combine
  \/ pixel_output

(* ------------ processing_task delivered twice (acks_late) --------------- *)
\* The data cube and the external functions answer a second execution as they
\* answered the first: the time column of a window is datacube[w], the
\* compositing returns answers[w].composite for it and the index function
\* answers[w].index. Each window holds one acquisition, and a band of
\* fractional cover is a value inside [0, 106], a value above it or the no-data
\* value.
RedeliveryFracValues == {53, 159, no_data_value}

\* what the index function can answer for the composite pixel o
RedeliveryIndexAnswers(index, o) ==
  IF index = "fractional_cover"
    THEN {r \in index_results(index, o) : \A b \in DOMAIN r : r[b] \in RedeliveryFracValues}
    ELSE index_results(index, o)

\* the time columns of a window with the answers they can get
RedeliveryWindows(index) ==
  UNION {UNION {{[data |-> <<d>>, composite |-> o, index |-> r] :
                   r \in RedeliveryIndexAnswers(index, o)} :
                o \in composite_of(<<d>>, <<clean_mask_of(d)>>)} :
         d \in Observations}

RedeliveryInit ==
  /\ PipelineIdle
  /\ spectral_index \in SpectralIndices
  /\ composite_threshold \in
       {t \in [min : ThresholdValues(spectral_index), max : ThresholdValues(spectral_index)] :
          t.min <= t.max}
  /\ \E e \in [WindowNames -> RedeliveryWindows(spectral_index)] :
       /\ datacube = [w \in WindowNames |-> e[w].data]
       /\ answers = [w \in WindowNames |->
                       [composite |-> e[w].composite, index |-> e[w].index]]
  /\ delivery = 1
  /\ metadata = <<>>
  /\ chunk_result = <<>>
  /\ first_result = <<>>
  /\ ppc = "load_baseline"
  /\ time_column_data = <<>>
  /\ time_column_clean_mask = <<>>
  /\ composites = <<>>
  /\ composites_out_of_range = <<>>
  /\ diff_composite = None
  /\ composite_out_of_range = None
  /\ composite_no_data = None
  /\ spec_ind_result = <<>>
  /\ composite_pixel = <<>>
  /\ change_threshold = <<>>
  /\ image_data = <<>>
  /\ netcdf_out = <<>>
  /\ geotiff_out = <<>>

\* task.metadata_from_dataset(metadata, data, clean_mask, parameters): one
\* entry per acquisition of the window is appended to the accumulator
metadata_from_dataset(md, data, mask, w) ==
  md \o [i \in DOMAIN data |-> [window |-> w, acquisition |-> i, clean |-> mask[i]]]

\* lines 304-380 for window w: load, composite, index, mask, metadata
execute_window(w) ==
  /\ delivery >= 1
  /\ ppc = "load_" \o w
  /\ LET data == datacube[w]
         mask == [i \in DOMAIN data |-> clean_mask_of(data[i])]
         with_index == [ref |-> answers[w].composite.ref,
                        index |-> derived_bands(spectral_index, answers[w].index)]
     IN  /\ composites' = (w :> with_index) @@ composites
         /\ composites_out_of_range' =
              (w :> out_of_range(with_index, composite_threshold)) @@ composites_out_of_range
         /\ metadata' = metadata_from_dataset(metadata, data, mask, w)
  /\ ppc' = IF w = "baseline" THEN "load_analysis" ELSE "combine"
  /\ UNCHANGED <<pipeVars, spectral_index, composite_threshold, time_column_data,
                 time_column_clean_mask, diff_composite, composite_out_of_range,
                 composite_no_data, spec_ind_result, composite_pixel, outVars, datacube, answers,
                 delivery, chunk_result, first_result>>

\* lines 414-422: the three files are written and the artifact is returned
execute_return ==
  /\ delivery >= 1
  /\ ppc = "done"
  /\ LET returned == [nc |-> diff_composite, out_of_range |-> composite_out_of_range,
                      no_data |-> composite_no_data, metadata |-> metadata]
     IN  /\ chunk_result' = returned
         /\ first_result' = IF delivery = 1 THEN returned ELSE first_result
  /\ ppc' = "returned"
  /\ UNCHANGED <<pipeVars, spectral_index, composite_threshold, time_column_data,
                 time_column_clean_mask, composites, composites_out_of_range,
                 diff_composite, composite_out_of_range, composite_no_data,
                 spec_ind_result, composite_pixel, outVars, datacube, answers, delivery, metadata>>

\* a second execution that goes on with the accumulator of the first
redeliver_keeping_metadata ==
  /\ delivery = 1
  /\ ppc # "load_baseline"
  /\ delivery' = 2
  /\ composites' = <<>>
  /\ composites_out_of_range' = <<>>
  /\ diff_composite' = None
  /\ composite_out_of_range' = None
  /\ composite_no_data' = None
  /\ ppc' = "load_baseline"
  /\ UNCHANGED <<pipeVars, spectral_index, composite_threshold, time_column_data,
                 time_column_clean_mask, spec_ind_result, composite_pixel, outVars, datacube, answers,
                 metadata, chunk_result, first_result>>

\* acks_late (line 259): the message of a task whose worker was lost before
\* the acknowledgement is delivered again, and processing_task starts anew with
\* the locals of lines 290-302; the files of the first execution stay on disk
redeliver ==
  /\ delivery = 1
  /\ ppc # "load_baseline"
  /\ delivery' = 2
  /\ metadata' = <<>>
  /\ composites' = <<>>
  /\ composites_out_of_range' = <<>>
  /\ diff_composite' = None
  /\ composite_out_of_range' = None
  /\ composite_no_data' = None
  /\ ppc' = "load_baseline"
  /\ UNCHANGED <<pipeVars, spectral_index, composite_threshold, time_column_data,
                 time_column_clean_mask, spec_ind_result, composite_pixel, outVars, datacube, answers,
                 chunk_result, first_result>>

RedeliveryNext ==
  \/ \E w \in WindowNames : execute_window(w)
  \/ pixel_combine
  \/ execute_return
  \/ redeliver

(* ------------------------------- Init ---------------------------------- *)
\* The chunks differ only by their id, and every stage treats them alike, so the
\* data cubes are taken up to a renaming of the chunks: chunk ids are given in
\* the order of the scene counts.
SceneKey(s) == s["baseline"] * (MaxScenes + 1) + s["analysis"]

PipelineInit ==
  /\ scenes \in [Chunks -> [WindowNames -> 0..MaxScenes]]
  /\ \A c \in Chunks \ {0} : SceneKey(scenes[c - 1]) <= SceneKey(scenes[c])
  /\ measurements_valid \in BOOLEAN
  /\ temp_exists \in BOOLEAN
  /\ cancelled = FALSE
  /\ task = [status |-> "WAIT", message |-> "submitted", complete |-> FALSE,
             total_scenes |-> 0, scenes_processed |-> 0]
  /\ pc = "parse"
  /\ arg = None
  /\ num_scn_per_chk = [w \in WindowNames |-> 0]
  /\ wpc = [c \in Chunks |-> "idle"]
  /\ result = [c \in Chunks |-> "pending"]
  /\ chunk_files = [c \in Chunks |-> {}]
  /\ rpc = "pending" /\ rres = None
  /\ mosaic = {} /\ mosaic_chunks = {}
  /\ chunk_order = <<>> /\ mosaic_data = <<>>
  /\ opc = "pending" /\ ores = None
  /\ products = {}
  /\ cpc = "pending"
  /\ seen_at = {}
  /\ seen_by = [c \in Chunks |-> FALSE]
  /\ increments = [c \in Chunks |-> [w \in WindowNames |-> 0]]
  /\ open_dc = {} /\ open_task_dc = {}
  /\ redeliveries = [c \in Chunks |-> 0]

(* -------------------------- cancellation ------------------------------- *)
\* the user cancels the task; the signal stays set
Cancel ==
  /\ ~cancelled
  /\ cpc = "pending"
  /\ cancelled' = TRUE
  /\ UNCHANGED <<pixelVars, envVars, task, chainVars, groupVars, tailVars, seen_at>>

(* --------------------------- run() chain ------------------------------- *)
parse_parameters_from_task ==
  /\ pc = "parse"
  /\ pc' = "validate"
  /\ IF check_cancel_task
       THEN /\ arg' = None
            /\ seen_at' = seen_at \cup {"parse_parameters_from_task"}
            /\ UNCHANGED task
       ELSE /\ arg' = "parameters"
            /\ task' = update_status(task, "WAIT", "Parsed out parameters.")
            /\ UNCHANGED seen_at
  /\ UNCHANGED <<pixelVars, envVars, cancelled, num_scn_per_chk, open_dc, groupVars, tailVars>>

\* lines 120-143: first checkpoint and the two acquisition checks
validate_parameters ==
  /\ pc = "validate"
  /\ IF check_cancel_task
       THEN /\ pc' = "chunking" /\ arg' = None
            /\ seen_at' = seen_at \cup {"validate_parameters"}
            /\ UNCHANGED <<task, open_dc>>
       ELSE \* parse_parameters_from_task returns None only at its checkpoint, and the
            \* signal stays set: without cancellation the stage is given the parameters
            /\ arg = "parameters"
            /\ UNCHANGED seen_at
            \* line 123: dc = DataAccessApi(...); the returns of lines 137 and 143
            \* leave it as it is
            /\ open_dc' = open_dc \cup {"validate_parameters"}
            /\ IF acquisitions("baseline") < 1
                 THEN /\ task' = update_status([task EXCEPT !.complete = TRUE], "ERROR",
                                   BaselineMessage)
                      /\ pc' = "chunking" /\ arg' = None
                 ELSE IF acquisitions("analysis") < 1
                 THEN /\ task' = update_status([task EXCEPT !.complete = TRUE], "ERROR",
                                   AnalysisMessage)
                      /\ pc' = "chunking" /\ arg' = None
                 ELSE /\ pc' = "validate_145"
                      /\ UNCHANGED <<task, arg>>
  /\ UNCHANGED <<pixelVars, envVars, cancelled, num_scn_per_chk, groupVars, tailVars>>

\* validate_parameters_145 without the "return None" of line 154: the error is
\* recorded and the parameters are returned all the same
validate_parameters_145_falls_through ==
  /\ pc = "validate_145"
  /\ pc' = "chunking"
  /\ IF check_cancel_task
       THEN /\ arg' = None
            /\ seen_at' = seen_at \cup {"validate_parameters"}
            /\ UNCHANGED <<task, open_dc>>
       ELSE /\ UNCHANGED seen_at
            /\ arg' = "parameters"
            /\ open_dc' = open_dc \ {"validate_parameters"}
            /\ IF ~measurements_valid
                 THEN task' = update_status([task EXCEPT !.complete = TRUE], "ERROR",
                                   MeasurementsMessage)
                 ELSE task' = update_status(task, "WAIT", "Validated parameters.")
  /\ UNCHANGED <<pixelVars, envVars, cancelled, num_scn_per_chk, groupVars, tailVars>>

\* lines 145-157: second checkpoint and the measurement check
validate_parameters_145 ==
  /\ pc = "validate_145"
  /\ pc' = "chunking"
  /\ IF check_cancel_task
       THEN /\ arg' = None
            /\ seen_at' = seen_at \cup {"validate_parameters"}
            /\ UNCHANGED <<task, open_dc>>
       ELSE /\ UNCHANGED seen_at
            /\ IF ~measurements_valid
                 THEN /\ task' = update_status([task EXCEPT !.complete = TRUE], "ERROR",
                                   MeasurementsMessage)
                      /\ arg' = None
                      /\ UNCHANGED open_dc
                 ELSE /\ task' = update_status(task, "WAIT", "Validated parameters.")
                      \* line 156: dc.close()
                      /\ open_dc' = open_dc \ {"validate_parameters"}
                      /\ arg' = "parameters"
  /\ UNCHANGED <<pixelVars, envVars, cancelled, num_scn_per_chk, groupVars, tailVars>>

\* lines 173-189: the DataAccessApi of line 179 is closed at line 189, with no
\* return in between
perform_task_chunking ==
  /\ pc = "chunking"
  /\ IF arg = None
       THEN /\ pc' = "start" /\ arg' = None
            /\ UNCHANGED seen_at
       ELSE IF check_cancel_task
       THEN /\ pc' = "start" /\ arg' = None
            /\ seen_at' = seen_at \cup {"perform_task_chunking"}
       ELSE /\ pc' = "chunking_190"
            /\ UNCHANGED <<arg, seen_at>>
  /\ UNCHANGED <<pixelVars, envVars, cancelled, task, num_scn_per_chk, open_dc, groupVars, tailVars>>

\* lines 190-193
perform_task_chunking_190 ==
  /\ pc = "chunking_190"
  /\ pc' = "start"
  /\ IF check_cancel_task
       THEN /\ arg' = None
            /\ seen_at' = seen_at \cup {"perform_task_chunking"}
            /\ UNCHANGED task
       ELSE /\ arg' = "chunk_details"
            /\ task' = update_status(task, "WAIT", "Chunked parameter set.")
            /\ UNCHANGED seen_at
  /\ UNCHANGED <<pixelVars, envVars, cancelled, num_scn_per_chk, open_dc, groupVars, tailVars>>

\* lines 207-241: the scene estimate, total_scenes and the reset of the counter
start_chunk_processing ==
  /\ pc = "start"
  /\ IF arg = None
       THEN /\ pc' = "chain_done" /\ arg' = None
            /\ UNCHANGED <<task, num_scn_per_chk, open_dc>>
       ELSE /\ pc' = "start_243"
            \* line 215: api = DataAccessApi(...), closed nowhere
            /\ open_dc' = open_dc \cup {"start_chunk_processing"}
            /\ num_scn_per_chk' = [w \in WindowNames |-> Round(num_scenes(w), NumChunks)]
            /\ task' = [task EXCEPT !.total_scenes = num_scenes("baseline") + num_scenes("analysis"),
                                    !.scenes_processed = 0]
            /\ UNCHANGED arg
  /\ UNCHANGED <<pixelVars, envVars, cancelled, groupVars, tailVars, seen_at>>

\* lines 243-256: last checkpoint, then the canvas
\*   group(processing_task...) | recombine | create_output_products | task_clean_up
\* is applied: every worker of the group becomes runnable
start_chunk_processing_243 ==
  /\ pc = "start_243"
  /\ pc' = "chain_done"
  /\ IF check_cancel_task
       THEN /\ arg' = None
            /\ seen_at' = seen_at \cup {"start_chunk_processing"}
            /\ UNCHANGED <<task, wpc>>
       ELSE /\ arg' = "True"
            /\ task' = update_status(task, "WAIT", "Starting processing.")
            /\ wpc' = [c \in Chunks |-> "entry"]
            /\ UNCHANGED seen_at
  /\ UNCHANGED <<pixelVars, envVars, cancelled, num_scn_per_chk, open_dc, result,
                 chunk_files, seen_by, increments, open_task_dc, redeliveries, tailVars>>

(* ------------------------- processing_task ----------------------------- *)
\* the worker of chunk c returns val
Return(c, val) ==
  /\ wpc' = [wpc EXCEPT ![c] = "returned"]
  /\ result' = [result EXCEPT ![c] = val]

\* the worker of chunk c observes the cancellation at a checkpoint and returns
ReturnCancelled(c) ==
  /\ Return(c, None)
  /\ seen_by' = [seen_by EXCEPT ![c] = TRUE]

\* progress recorded as the chunk's own scene count, len(time_column_data.time)
record_progress_exact(t, c, w) ==
  [t EXCEPT !.scenes_processed = t.scenes_processed + scenes[c][w]]

\* progress recorded by read-modify-write on the worker's own copy of the row:
\* task.scenes_processed += n; task.save(), the copy starting at 0
record_progress_local(t, c, w) ==
  [t EXCEPT !.scenes_processed =
     increments[c]["baseline"] * num_scn_per_chk["baseline"]
     + increments[c]["analysis"] * num_scn_per_chk["analysis"]
     + num_scn_per_chk[w]]

\* lines 379-380: task.scenes_processed = F('scenes_processed') + n; task.save(...)
\* the addition is done by the database on the stored value
record_progress(t, c, w) ==
  [t EXCEPT !.scenes_processed = t.scenes_processed + num_scn_per_chk[w]]

\* len(time_column_data.dims) == 0: the chunk has no data in the window
no_coverage(c, w) == scenes[c][w] = 0

\* lines 283-303: objects.get, first checkpoint, the temporary directory
processing_task_entry(c) ==
  /\ wpc[c] = "entry"
  /\ IF check_cancel_task
       THEN ReturnCancelled(c)
       ELSE /\ UNCHANGED seen_by
            /\ IF ~temp_exists
                 THEN Return(c, None)
                 ELSE /\ wpc' = [wpc EXCEPT ![c] = "check_baseline"]
                      /\ UNCHANGED result
  \* line 297: dc = DataAccessApi(...)
  /\ open_task_dc' = IF ~check_cancel_task /\ temp_exists
                       THEN open_task_dc \cup {c} ELSE open_task_dc
  /\ UNCHANGED <<pixelVars, envVars, cancelled, task, chainVars, chunk_files, increments,
                 redeliveries, tailVars, seen_at>>

\* lines 305-312 of window w: checkpoint, load, empty chunk
processing_task_load(c, w) ==
  /\ wpc[c] = "check_" \o w
  /\ IF check_cancel_task
       THEN ReturnCancelled(c)
       ELSE /\ UNCHANGED seen_by
            /\ IF no_coverage(c, w)
                 THEN Return(c, None)
                 ELSE /\ wpc' = [wpc EXCEPT ![c] = "process_" \o w]
                      /\ UNCHANGED result
  /\ UNCHANGED <<pixelVars, envVars, cancelled, task, chainVars, chunk_files, increments,
                 open_task_dc, redeliveries, tailVars, seen_at>>

\* lines 314-380 of window w: masks, composite, index, out-of-range mask,
\* metadata, and the progress record
processing_task_window(c, w) ==
  /\ wpc[c] = "process_" \o w
  /\ task' = record_progress(task, c, w)
  /\ increments' = [increments EXCEPT ![c][w] = @ + 1]
  /\ wpc' = [wpc EXCEPT ![c] = IF w = "baseline" THEN "check_analysis" ELSE "post"]
  /\ UNCHANGED <<pixelVars, envVars, cancelled, chainVars, result, chunk_files, seen_by,
                 open_task_dc, redeliveries, tailVars, seen_at>>

\* lines 381-410: checkpoint, difference composite and combined masks
processing_task_post(c) ==
  /\ wpc[c] = "post"
  \* line 381: dc.close()
  /\ open_task_dc' = open_task_dc \ {c}
  /\ IF check_cancel_task
       THEN ReturnCancelled(c)
       ELSE /\ wpc' = [wpc EXCEPT ![c] = "check_412"]
            /\ UNCHANGED <<result, seen_by>>
  /\ UNCHANGED <<pixelVars, envVars, cancelled, task, chainVars, chunk_files, increments,
                 redeliveries, tailVars, seen_at>>

\* line 412: last checkpoint
processing_task_412(c) ==
  /\ wpc[c] = "check_412"
  /\ IF check_cancel_task
       THEN ReturnCancelled(c)
       ELSE /\ wpc' = [wpc EXCEPT ![c] = "write_nc"]
            /\ UNCHANGED <<result, seen_by>>
  /\ UNCHANGED <<pixelVars, envVars, cancelled, task, chainVars, chunk_files, increments,
                 open_task_dc, redeliveries, tailVars, seen_at>>

\* the checkpoint of line 412 placed after the first export
processing_task_write_nc_then_check(c) ==
  /\ wpc[c] = "write_nc"
  /\ chunk_files' = [chunk_files EXCEPT ![c] = @ \cup {"nc"}]
  /\ IF check_cancel_task
       THEN ReturnCancelled(c)
       ELSE /\ wpc' = [wpc EXCEPT ![c] = "write_out_of_range"]
            /\ UNCHANGED <<result, seen_by>>
  /\ UNCHANGED <<pixelVars, envVars, cancelled, task, chainVars, increments, open_task_dc, redeliveries, tailVars, seen_at>>

\* lines 414-415: <id>.nc
processing_task_write_nc(c) ==
  /\ wpc[c] = "write_nc"
  /\ chunk_files' = [chunk_files EXCEPT ![c] = @ \cup {"nc"}]
  /\ wpc' = [wpc EXCEPT ![c] = "write_out_of_range"]
  /\ UNCHANGED <<pixelVars, envVars, cancelled, task, chainVars, result, seen_by, increments,
                 open_task_dc, redeliveries, tailVars, seen_at>>

\* lines 416-418: <id>_out_of_range.nc
processing_task_write_out_of_range(c) ==
  /\ wpc[c] = "write_out_of_range"
  /\ chunk_files' = [chunk_files EXCEPT ![c] = @ \cup {"out_of_range"}]
  /\ wpc' = [wpc EXCEPT ![c] = "write_no_data"]
  /\ UNCHANGED <<pixelVars, envVars, cancelled, task, chainVars, result, seen_by, increments,
                 open_task_dc, redeliveries, tailVars, seen_at>>

\* lines 419-422: <id>_no_data.nc and the return of the artifact tuple
processing_task_write_no_data(c) ==
  /\ wpc[c] = "write_no_data"
  /\ chunk_files' = [chunk_files EXCEPT ![c] = @ \cup {"no_data"}]
  /\ Return(c, "artifact")
  /\ UNCHANGED <<pixelVars, envVars, cancelled, task, chainVars, seen_by, increments,
                 open_task_dc, redeliveries, tailVars, seen_at>>

\* acks_late (line 259): the message of a processing_task is acknowledged after
\* the task has returned, so a worker lost during the execution has the message
\* delivered again and the task runs again from its first line. The task row
\* and the files written so far stay; the connection of the lost worker is gone.
processing_task_redelivered(c) ==
  /\ wpc[c] \notin {"idle", "entry", "returned"}
  /\ redeliveries[c] < MaxRedeliveries
  /\ redeliveries' = [redeliveries EXCEPT ![c] = @ + 1]
  /\ wpc' = [wpc EXCEPT ![c] = "entry"]
  /\ open_task_dc' = open_task_dc \ {c}
  /\ UNCHANGED <<pixelVars, envVars, cancelled, task, chainVars, result, chunk_files, seen_by,
                 increments, tailVars, seen_at>>

(* ------------------ chord callback and chained stages ------------------ *)
\* a callback that runs as soon as one task of the group has returned
group_any_finished == \E c \in Chunks : wpc[c] = "returned"

\* chord: the callback runs once every task of the group has returned
group_finished == \A c \in Chunks : wpc[c] = "returned"

\* line 439 left out: the None results are kept
total_chunks_unfiltered == Chunks

\* line 439: the chunks that are not None
total_chunks == {c \in Chunks : result[c] # None}

\* the lists in which the artifacts of the set S can arrive
Orders(S) ==
  {q \in [1..Cardinality(S) -> S] : \A i, j \in DOMAIN q : q[i] = q[j] => i = j}

\* xr.open_dataset(chunk[k]): the raster of chunk c in the file of the kind k.
\* A chunk covers its own cell of the grid, named after the chunk.
chunk_dataset(c, kind) == [x \in {c} |-> <<c, kind>>]

\* lines 449-453 with the first artifact of the list opened in every turn
open_datasets_first_chunk(chunks, kind) ==
  [i \in DOMAIN chunks |-> chunk_dataset(chunks[1], kind)]

\* lines 449-453: the datasets of one kind, in the order of the list
open_datasets(chunks, kind) ==
  [i \in DOMAIN chunks |-> chunk_dataset(chunks[i], kind)]

\* combine_geographic_chunks(datasets): every dataset is placed at its own
\* cells, a cell that no dataset covers stays empty (<<>>), a cell that several
\* cover takes the first of the list
combine_geographic_chunks(datasets) ==
  [x \in Chunks |->
     LET covering == {i \in DOMAIN datasets : x \in DOMAIN datasets[i]}
     IN  IF covering = {} THEN <<>>
         ELSE datasets[CHOOSE i \in covering : \A j \in covering : i <= j][x]]

\* lines 445-464 for the list chunks: the three mosaics
write_mosaics(chunks) ==
  /\ chunk_order' = chunks
  /\ mosaic_data' =
       [kind \in ChunkFileKinds |-> combine_geographic_chunks(open_datasets(chunks, kind))]

\* recombine_geographic_chunks without the checkpoint of line 443
recombine_geographic_chunks_no_checkpoint ==
  /\ rpc = "pending"
  /\ group_finished
  /\ rpc' = "returned"
  /\ IF total_chunks = {}
       THEN /\ rres' = None
            /\ UNCHANGED <<mosaic, mosaic_chunks, mosaic_data, chunk_order>>
       ELSE /\ \E chunks \in Orders(total_chunks) : write_mosaics(chunks)
            /\ mosaic_chunks' = total_chunks
            /\ mosaic' = {"full_composite", "full_composite_out_of_range",
                          "full_composite_no_data"}
            /\ rres' = "mosaic"
  /\ UNCHANGED <<pixelVars, envVars, cancelled, task, chainVars, groupVars, opc, ores, products, cpc,
                 seen_at>>

\* lines 438-465, one checkpoint at 443
recombine_geographic_chunks ==
  /\ rpc = "pending"
  /\ group_finished
  /\ rpc' = "returned"
  /\ IF total_chunks = {}
       THEN /\ rres' = None
            /\ UNCHANGED <<mosaic, mosaic_chunks, mosaic_data, chunk_order, seen_at>>
       ELSE IF check_cancel_task
       THEN /\ rres' = None
            /\ seen_at' = seen_at \cup {"recombine_geographic_chunks"}
            /\ UNCHANGED <<mosaic, mosaic_chunks, mosaic_data, chunk_order>>
       ELSE /\ \E chunks \in Orders(total_chunks) : write_mosaics(chunks)
            /\ mosaic_chunks' = total_chunks
            /\ mosaic' = {"full_composite", "full_composite_out_of_range",
                          "full_composite_no_data"}
            /\ rres' = "mosaic"
            /\ UNCHANGED seen_at
  /\ UNCHANGED <<pixelVars, envVars, cancelled, task, chainVars, groupVars, opc, ores, products, cpc>>

\* chain: a stage runs once the stage before it has returned
recombine_returned == rpc = "returned"

\* lines 480-547: null input, checkpoint, the image is built in memory
create_output_products ==
  /\ opc = "pending"
  /\ recombine_returned
  /\ IF rres = None
       THEN /\ opc' = "returned" /\ ores' = None
            /\ UNCHANGED seen_at
       ELSE IF check_cancel_task
       THEN /\ opc' = "returned" /\ ores' = None
            /\ seen_at' = seen_at \cup {"create_output_products"}
       ELSE /\ opc' = "write_netcdf"
            /\ UNCHANGED <<ores, seen_at>>
  /\ UNCHANGED <<pixelVars, envVars, cancelled, task, chainVars, groupVars, rpc, rres, mosaic,
                 mosaic_chunks, mosaic_data, chunk_order, products, cpc>>

\* line 550: export_xarray_to_netcdf
create_output_products_netcdf ==
  /\ opc = "write_netcdf"
  /\ products' = products \cup {"netcdf"}
  /\ opc' = "write_geotiff"
  /\ UNCHANGED <<pixelVars, envVars, cancelled, task, chainVars, groupVars, rpc, rres, mosaic,
                 mosaic_chunks, mosaic_data, chunk_order, ores, cpc, seen_at>>

\* lines 551-552 with lines 566-568 moved before plt.imsave
create_output_products_geotiff_then_ok ==
  /\ opc = "write_geotiff"
  /\ products' = products \cup {"geotiff"}
  /\ task' = update_status([task EXCEPT !.complete = TRUE], "OK",
                           "All products have been generated. Your result will be loaded on the map.")
  /\ opc' = "write_png"
  /\ UNCHANGED <<pixelVars, envVars, cancelled, chainVars, groupVars, rpc, rres, mosaic,
                 mosaic_chunks, mosaic_data, chunk_order, ores, cpc, seen_at>>

\* lines 551-552: write_geotiff_from_xr
create_output_products_geotiff ==
  /\ opc = "write_geotiff"
  /\ products' = products \cup {"geotiff"}
  /\ opc' = "write_png"
  /\ UNCHANGED <<pixelVars, envVars, cancelled, task, chainVars, groupVars, rpc, rres, mosaic,
                 mosaic_chunks, mosaic_data, chunk_order, ores, cpc, seen_at>>

\* line 553: plt.imsave
create_output_products_png ==
  /\ opc = "write_png"
  /\ products' = products \cup {"png"}
  /\ opc' = "finish"
  /\ UNCHANGED <<pixelVars, envVars, cancelled, task, chainVars, groupVars, rpc, rres, mosaic,
                 mosaic_chunks, mosaic_data, chunk_order, ores, cpc, seen_at>>

\* lines 555-569: the plot, complete, status OK
create_output_products_finish ==
  /\ opc = "finish"
  /\ task' = update_status([task EXCEPT !.complete = TRUE], "OK",
                           "All products have been generated. Your result will be loaded on the map.")
  /\ opc' = "returned" /\ ores' = "True"
  /\ UNCHANGED <<pixelVars, envVars, cancelled, chainVars, groupVars, rpc, rres, mosaic,
                 mosaic_chunks, mosaic_data, chunk_order, products, cpc, seen_at>>

output_returned == opc = "returned"

\* task_clean_up.si(...): immutable signature, runs whatever the stage before returned
task_clean_up ==
  /\ cpc = "pending"
  /\ output_returned
  /\ cpc' = "returned"
  /\ UNCHANGED <<pixelVars, envVars, cancelled, task, chainVars, groupVars, rpc, rres, mosaic,
                 mosaic_chunks, mosaic_data, chunk_order, opc, ores, products, seen_at>>

(* ------------------------------ pipeline ------------------------------- *)
Next ==
  \/ Cancel
  \/ parse_parameters_from_task
  \/ validate_parameters
  \/ validate_parameters_145
  \/ perform_task_chunking
  \/ perform_task_chunking_190
  \/ start_chunk_processing
  \/ start_chunk_processing_243
  \/ \E c \in Chunks : processing_task_entry(c)
  \/ \E c \in Chunks, w \in WindowNames : processing_task_load(c, w)
  \/ \E c \in Chunks, w \in WindowNames : processing_task_window(c, w)
  \/ \E c \in Chunks : processing_task_post(c)
  \/ \E c \in Chunks : processing_task_412(c)
  \/ \E c \in Chunks : processing_task_write_nc(c)
  \/ \E c \in Chunks : processing_task_write_out_of_range(c)
  \/ \E c \in Chunks : processing_task_write_no_data(c)
  \/ recombine_geographic_chunks
  \/ create_output_products
  \/ create_output_products_netcdf
  \/ create_output_products_geotiff
  \/ create_output_products_png
  \/ create_output_products_finish
  \/ task_clean_up

vars == <<pipeVars, pixelVars>>

Init == PipelineInit /\ PixelIdle

\* the pipeline with at-least-once delivery of the processing_task messages
AtLeastOnceNext ==
  \/ Next
  \/ \E c \in Chunks : processing_task_redelivered(c)

Spec == Init /\ [][Next]_vars
AtLeastOnceSpec == Init /\ [][AtLeastOnceNext]_vars

\* A step of the pipeline itself: every step but the user's cancellation.
Scheduled == Next /\ cancelled' = cancelled

\* The workers execute every task that is queued, and the chain and the chord
\* queue a stage once the stage before it has returned: the pipeline does not
\* stop while one of its steps is possible. Nothing obliges the user to cancel.
FairSpec == Init /\ [][Next]_vars /\ WF_vars(Scheduled)

PixelSpec == PixelInit /\ [][PixelNext]_vars

RedeliverySpec == RedeliveryInit /\ [][RedeliveryNext]_vars

(* ============================ claims =================================== *)

\* the value a stage of the chain or of the callback returned last
StageReturn(s) ==
  CASE s = "recombine_geographic_chunks" -> rres
    [] s = "create_output_products" -> ores
    [] OTHER -> arg

\* both windows of every chunk have completed
AllWindowsDone ==
  \A c \in Chunks : \A w \in WindowNames : increments[c][w] >= 1

\* a derived band of the composite is below the minimum or above the maximum
\* the user accepts
ViolatesCompositeRange(composite) ==
  \E b \in IndexBands(spectral_index) :
    \/ composite.index[b] < composite_threshold.min
    \/ composite.index[b] > composite_threshold.max

\* C1: the combined clean mask handed to the compositing is true for an
\* acquisition only if the satellite's clean mask, the mask of plausible values
\* and the no-data mask of the first measurement band all take it as valid.
C1_CleanMaskNeedsAllThree ==
  \A i \in DOMAIN time_column_clean_mask :
    time_column_clean_mask[i] =>
      /\ time_column_data[i].clean
      /\ time_column_data[i].valid
      /\ time_column_data[i].ref # no_data_value

\* C2: for every spectral index the combined no-data mask is true where the
\* first measurement band of the baseline composite or of the analysis
\* composite holds the no-data value.
C2_NoDataInEitherWindowIsFlagged ==
  ppc = "done" =>
    ((\/ composites["baseline"].ref = no_data_value
      \/ composites["analysis"].ref = no_data_value) => composite_no_data)

\* C3: the combined out-of-range mask is true exactly where the baseline
\* composite or the analysis composite is out of the composite range.
C3_OutOfRangeIsUnion ==
  ppc = "done" =>
    composite_out_of_range =
      (\/ ViolatesCompositeRange(composites["baseline"])
       \/ ViolatesCompositeRange(composites["analysis"]))

\* only the analysis composite is out of range, and the pixel is flagged
C3_Witness ==
  /\ ppc = "done"
  /\ ~ViolatesCompositeRange(composites["baseline"])
  /\ ViolatesCompositeRange(composites["analysis"])
  /\ composite_out_of_range

\* C4: with the cancellation signal staying set, a stage that observes the
\* cancellation at a checkpoint returns None and writes nothing, and from that
\* step on no step writes a mosaic or a final product, sets status OK or sets
\* complete.
C4_CancellationStopsTheRun ==
  [][ /\ \A s \in seen_at' \ seen_at : StageReturn(s)' = None
      /\ \A c \in Chunks :
           (seen_by'[c] /\ ~seen_by[c]) =>
             (result'[c] = None /\ chunk_files'[c] = chunk_files[c])
      /\ cancel_seen' =>
           /\ mosaic' = mosaic
           /\ products' = products
           /\ (task'.status = "OK" => task.status = "OK")
           /\ (task'.complete => task.complete) ]_vars

\* a run ended after a worker produced its artifact and the cancellation was
\* then observed: no mosaic, no product, status not OK
C4_Witness ==
  /\ cancel_seen
  /\ cpc = "returned"
  /\ \E c \in Chunks : result[c] = "artifact"
  /\ mosaic = {} /\ products = {}
  /\ task.status # "OK" /\ ~task.complete

\* C5: a processing_task that observed the cancellation returned None and wrote
\* none of its three files; a returned processing_task either returned the
\* artifact and wrote all three files, or returned None and wrote none.
C5_AllOrNothingArtifact ==
  \A c \in Chunks :
    /\ seen_by[c] => (wpc[c] = "returned" /\ result[c] = None /\ chunk_files[c] = {})
    /\ wpc[c] = "returned" =>
         \/ (result[c] = "artifact" /\ chunk_files[c] = ChunkFileKinds)
         \/ (result[c] = None /\ chunk_files[c] = {})

\* one worker observed the cancellation after both of its windows (at line 383
\* or 412) and returned None, another one returned its artifact
C5_Witness ==
  \E c, d \in Chunks :
    /\ seen_by[c] /\ wpc[c] = "returned" /\ increments[c]["analysis"] = 1
    /\ result[d] = "artifact" /\ chunk_files[d] = ChunkFileKinds

\* C6: recombine_geographic_chunks has started only if every processing_task
\* of the group has returned its outcome; create_output_products only if
\* recombine_geographic_chunks has returned; task_clean_up only if
\* create_output_products has returned.
C6_BarrierThenChain ==
  /\ rpc # "pending" =>
       \A c \in Chunks : wpc[c] = "returned" /\ result[c] \in {None, "artifact"}
  /\ opc # "pending" => rpc = "returned"
  /\ cpc # "pending" => opc = "returned"

\* a run that went through the barrier and the three chained stages, the
\* workers having returned different outcomes
C6_Witness ==
  /\ cpc = "returned"
  /\ products = ProductKinds
  /\ \E c, d \in Chunks : result[c] = None /\ result[d] = "artifact"

C8_NoLostUpdate ==
  task.scenes_processed =
    SumTo([c \in Chunks |->
             increments[c]["baseline"] * num_scn_per_chk["baseline"]
             + increments[c]["analysis"] * num_scn_per_chk["analysis"]], NumChunks)

\* every worker has recorded both windows, with nonzero increments
C8_Witness ==
  /\ AllWindowsDone
  /\ num_scn_per_chk["baseline"] > 0 /\ num_scn_per_chk["analysis"] > 0
  /\ task.scenes_processed = NumChunks * (num_scn_per_chk["baseline"] + num_scn_per_chk["analysis"])

\* C9: a chunk without coverage in one of the windows returns None, which is no
\* failure; the mosaic is built from exactly the chunks that returned an
\* artifact; when every chunk returned None, recombine_geographic_chunks
\* returns None and create_output_products writes no product.
C9_EmptyChunksAreFilteredOut ==
  /\ \A c \in Chunks :
       (wpc[c] = "returned" /\ \E w \in WindowNames : scenes[c][w] = 0) =>
         (result[c] = None /\ task.status # "ERROR")
  /\ rres = "mosaic" =>
       (mosaic_chunks = {c \in Chunks : result[c] = "artifact"} /\ mosaic_chunks # {})
  /\ (rpc = "returned" /\ \A c \in Chunks : result[c] = None) =>
       (rres = None /\ mosaic = {} /\ mosaic_chunks = {} /\ products = {}
        /\ opc \in {"pending", "returned"} /\ ores = None)

\* an uncancelled run in which one chunk had no coverage and another one made
\* up the mosaic
C9_Witness ==
  /\ ~cancelled
  /\ opc = "returned" /\ products = ProductKinds
  /\ \E c, d \in Chunks :
       /\ scenes[c]["analysis"] = 0 /\ scenes[c]["baseline"] > 0 /\ result[c] = None
       /\ mosaic_chunks = {d}

\* C10: a validation failure sets status ERROR with complete = True and makes
\* the stage return None; the later stages pass the None on, launch no
\* processing_task and leave the status at ERROR; the baseline window is checked
\* before the analysis window, each with its own message.
C10_ValidationFailureIsTerminal ==
  /\ [](task.status = "ERROR" =>
          /\ task.complete
          /\ pc \in {"chunking", "start", "chain_done"}
          /\ arg = None
          /\ \A c \in Chunks : wpc[c] = "idle"
          /\ rpc = "pending" /\ opc = "pending" /\ cpc = "pending"
          /\ task.message = IF acquisitions("baseline") < 1 THEN BaselineMessage
                            ELSE IF acquisitions("analysis") < 1 THEN AnalysisMessage
                            ELSE MeasurementsMessage
          /\ (task.message = MeasurementsMessage => ~measurements_valid))
  /\ []((/\ pc \in {"chunking", "chunking_190", "start", "start_243", "chain_done"}
         /\ seen_at \cap {"parse_parameters_from_task", "validate_parameters"} = {}
         /\ (acquisitions("baseline") < 1 \/ acquisitions("analysis") < 1
             \/ ~measurements_valid))
        => task.status = "ERROR")
  /\ [][task.status = "ERROR" => task' = task]_vars

\* the chain ended after the analysis window was found empty
C10_Witness ==
  /\ pc = "chain_done"
  /\ task.status = "ERROR" /\ task.complete
  /\ task.message = AnalysisMessage
  /\ cancelled

\* C17: the out-of-range mask of a window is true at a pixel exactly when a
\* derived band of the window's composite (the index band, or one of bs, pv and
\* npv for fractional cover) is strictly below composite_threshold_min or
\* strictly above composite_threshold_max; a value equal to a bound is in range.
C17_OutOfRangeIsStrict ==
  \A w \in DOMAIN composites_out_of_range :
    composites_out_of_range[w] =
      IF spectral_index = "fractional_cover"
        THEN \/ composites[w].index["bs"] < composite_threshold.min
             \/ composites[w].index["bs"] > composite_threshold.max
             \/ composites[w].index["pv"] < composite_threshold.min
             \/ composites[w].index["pv"] > composite_threshold.max
             \/ composites[w].index["npv"] < composite_threshold.min
             \/ composites[w].index["npv"] > composite_threshold.max
        ELSE \/ composites[w].index[spectral_index] < composite_threshold.min
             \/ composites[w].index[spectral_index] > composite_threshold.max

\* the baseline ndvi equals the lower bound and is in range, the analysis ndvi
\* is above the upper bound and out of range
C17_Witness ==
  /\ spectral_index = "ndvi"
  /\ DOMAIN composites_out_of_range = WindowNames
  /\ composite_threshold.min < composite_threshold.max
  /\ composites["baseline"].index["ndvi"] = composite_threshold.min
  /\ ~composites_out_of_range["baseline"]
  /\ composites["analysis"].index["ndvi"] > composite_threshold.max
  /\ composites_out_of_range["analysis"]

\* C18: for evi the combined no-data mask is true where the first measurement
\* band or the derived evi band holds the no-data value in the baseline or in
\* the analysis composite; for ndvi, ndwi and ndbi it is true exactly where the
\* first measurement band holds it in one of the two composites, whatever the
\* derived band holds.
C18_DerivedBandFlagsOnlyForEvi ==
  (ppc = "done" /\ spectral_index \in {"ndvi", "ndwi", "ndbi", "evi"}) =>
    LET ReferenceRule == \E w \in WindowNames : composites[w].ref = no_data_value
        DerivedRule ==
          \E w \in WindowNames : composites[w].index[spectral_index] = no_data_value
    IN  composite_no_data =
          IF spectral_index = "evi" THEN ReferenceRule \/ DerivedRule
                                    ELSE ReferenceRule

\* evi: the measurement band is valid in both composites, the analysis evi is
\* the no-data value, and the pixel is flagged
C18_Witness ==
  /\ ppc = "done"
  /\ spectral_index = "evi"
  /\ \A w \in WindowNames : composites[w].ref # no_data_value
  /\ composites["baseline"].index["evi"] # no_data_value
  /\ composites["analysis"].index["evi"] = no_data_value
  /\ composite_no_data

\* C20: the difference composite that processing_task writes holds the derived
\* band(s) of the index and no measurement band, and each band is the analysis
\* composite minus the baseline composite.
C20_DifferenceIsAnalysisMinusBaseline ==
  ppc = "done" =>
    /\ DOMAIN diff_composite = IndexBands(spectral_index)
    /\ MeasurementBand \notin DOMAIN diff_composite
    /\ \A b \in IndexBands(spectral_index) :
         diff_composite[b] + composites["baseline"].index[b]
           = composites["analysis"].index[b]

\* the analysis ndvi is above the baseline ndvi, and the measurement band
\* differs between the two composites
C20_Witness ==
  /\ ppc = "done"
  /\ spectral_index = "ndvi"
  /\ composites["baseline"].index["ndvi"] = -1
  /\ composites["analysis"].index["ndvi"] = 1
  /\ diff_composite["ndvi"] = 2
  /\ composites["baseline"].ref # composites["analysis"].ref

\* the window whose composite was made last
LatestWindow == IF "analysis" \in DOMAIN composites THEN "analysis" ELSE "baseline"

\* C13: for fractional cover each of bs, pv and npv of the composite is the
\* band the index function returned, mapped by v -> v * 100 / 106 without
\* clipping: 0 gives 0, 53 gives 50, 106 gives 100, a value above 106 gives a
\* value above 100 and a negative value a negative one.
C13_RescaleIsLinearUnclipped ==
  (spectral_index = "fractional_cover" /\ DOMAIN spec_ind_result # {}) =>
    \A b \in {"bs", "pv", "npv"} :
      LET v == spec_ind_result[b]
          r == composites[LatestWindow].index[b]
      IN  /\ (v = 0 => r = 0) /\ (v = 53 => r = 50) /\ (v = 106 => r = 100)
          /\ ((v * 100) % 106 = 0 => r * 106 = v * 100)
          /\ (v > 106 => r > 100)
          /\ (v < 0 => r < 0)

\* the difference of the drawn band is outside the change range the user gave
OutsideChangeRange ==
  /\ change_threshold.min # <<>> /\ change_threshold.max # <<>>
  /\ \/ diff_composite[plotted_band(spectral_index)] < change_threshold.min[1]
     \/ diff_composite[plotted_band(spectral_index)] > change_threshold.max[1]

\* C11: in the image every pixel that the combined no-data mask flags is fully
\* transparent, RGBA (0, 0, 0, 0), whatever its difference, the out-of-range
\* mask and the change range are.
C11_NoDataIsTransparent ==
  (ppc = "output" /\ composite_no_data) => image_data = <<0, 0, 0, 0>>

\* a no-data pixel that is also out of the composite range and whose difference
\* is outside the change range
C11_Witness ==
  /\ ppc = "output"
  /\ composite_no_data /\ composite_out_of_range /\ OutsideChangeRange
  /\ image_data = <<0, 0, 0, 0>>

\* C12: when both change thresholds are given, the pixel of the image is red,
\* black, white or transparent, and never a color of the gradient.
C12_ChangeRangeGivesFourColors ==
  (/\ ppc = "output"
   /\ change_threshold.min # <<>> /\ change_threshold.max # <<>>)
  => image_data \in {<<255, 0, 0, 255>>, <<0, 0, 0, 255>>,
                     <<255, 255, 255, 255>>, <<0, 0, 0, 0>>}

\* a pixel inside the change range that no mask flags is red
C12_Witness ==
  /\ ppc = "output"
  /\ change_threshold.min # <<>> /\ change_threshold.max # <<>>
  /\ ~OutsideChangeRange /\ ~composite_out_of_range /\ ~composite_no_data
  /\ image_data = <<255, 0, 0, 255>>

\* C16: in data_netcdf.nc every derived band of a pixel that the combined
\* no-data mask flags holds the no-data value, and every derived band of a
\* pixel it does not flag holds the difference.
C16_ArchiveMarksNoData ==
  ppc = "output" =>
    \A b \in IndexBands(spectral_index) :
      netcdf_out[b] = IF composite_no_data
                        THEN [nan |-> FALSE, v |-> no_data_value]
                        ELSE [nan |-> FALSE, v |-> diff_composite[b]]

\* C19: a pixel that the out-of-range mask flags and the no-data mask does not
\* is white, also when its difference is outside the change range; a pixel is
\* black exactly when its difference is outside the change range and neither
\* mask flags it.
C19_LaterLayersOverride ==
  ppc = "output" =>
    /\ (composite_out_of_range /\ ~composite_no_data) => image_data = <<255, 255, 255, 255>>
    /\ image_data = <<0, 0, 0, 255>>
         <=> (OutsideChangeRange /\ ~composite_out_of_range /\ ~composite_no_data)

\* out of the composite range and outside the change range: white, not black
C19_Witness ==
  /\ ppc = "output"
  /\ composite_out_of_range /\ ~composite_no_data /\ OutsideChangeRange
  /\ image_data = <<255, 255, 255, 255>>

\* C15: each of the three mosaics holds, at the cell of every chunk that
\* returned an artifact, that chunk's raster of the same kind, and is empty at
\* the other cells, in whatever order the artifacts are listed.
C15_MosaicsIgnoreTheOrder ==
  rres = "mosaic" =>
    \A kind \in ChunkFileKinds : \A x \in Chunks :
      mosaic_data[kind][x] = IF result[x] = "artifact" THEN <<x, kind>> ELSE <<>>

\* the artifacts arrived in the reverse order of the chunks
C15_Witness ==
  /\ rres = "mosaic"
  /\ Len(chunk_order) >= 2
  /\ chunk_order[1] > chunk_order[2]
  /\ \A i \in DOMAIN chunk_order :
       mosaic_data["no_data"][chunk_order[i]] = <<chunk_order[i], "no_data">>

ExactlyOneChangeBound ==
  (change_threshold.min = <<>>) # (change_threshold.max = <<>>)

\* C23: the change range counts as given only when both thresholds are set.
\* With exactly one threshold set the pixel of the image is never red and never
\* black: it is the color of the gradient for its difference, or white or
\* transparent by the two masks, as it is with no threshold at all.
C23_SingleBoundHasNoEffect ==
  (ppc = "output" /\ ExactlyOneChangeBound) =>
    /\ image_data \notin {<<255, 0, 0, 255>>, <<0, 0, 0, 255>>}
    /\ image_data =
         IF composite_no_data THEN <<0, 0, 0, 0>>
         ELSE IF composite_out_of_range THEN <<255, 255, 255, 255>>
         ELSE RdYlGn(image_quarters(
                [nan |-> FALSE, v |-> diff_composite[plotted_band(spectral_index)]],
                spectral_index))

\* only the lower threshold is set and the difference of an unmasked pixel is
\* below it: the pixel has a color of the gradient
C23_Witness ==
  /\ ppc = "output"
  /\ change_threshold.min # <<>> /\ change_threshold.max = <<>>
  /\ ~composite_out_of_range /\ ~composite_no_data
  /\ diff_composite[plotted_band(spectral_index)] < change_threshold.min[1]
  /\ image_data \in {<<165, 0, 38, 255>>, <<248, 141, 82, 255>>, <<255, 255, 191, 255>>,
                     <<134, 203, 102, 255>>, <<0, 104, 55, 255>>}

\* C24: the status is OK only once create_output_products has returned True,
\* with complete = True and with data_netcdf.nc, the GeoTIFF and the image all
\* written; in no state is the status OK while one of the three is missing.
C24_OkOnlyAfterTheThreeProducts ==
  task.status = "OK" =>
    /\ task.complete
    /\ products = {"netcdf", "geotiff", "png"}
    /\ opc = "returned" /\ ores = "True"

\* a run that reached status OK
C24_Witness ==
  /\ task.status = "OK" /\ task.complete
  /\ products = {"netcdf", "geotiff", "png"}
  /\ cpc = "returned"

\* C21: in every state of a run, with empty chunks, with chunks of unequal scene
\* counts and with a processing_task executed again after a redelivery, the
\* progress counter stays between 0 and total_scenes.
C21_CounterWithinTotal ==
  0 <= task.scenes_processed /\ task.scenes_processed <= task.total_scenes

\* C25: a stage that has returned holds no open DataAccessApi, whichever way it
\* returned: validate_parameters, perform_task_chunking and
\* start_chunk_processing in the chain, and the processing_task of every chunk.
C25_ConnectionsClosedAtReturn ==
  /\ pc \notin {"parse", "validate", "validate_145"} => "validate_parameters" \notin open_dc
  /\ pc \notin {"parse", "validate", "validate_145", "chunking", "chunking_190"}
       => "perform_task_chunking" \notin open_dc
  /\ pc = "chain_done" => "start_chunk_processing" \notin open_dc
  /\ \A c \in Chunks : wpc[c] = "returned" => c \notin open_task_dc

\* C22: a run that is never cancelled eventually leaves the task record
\* complete with status OK or ERROR, also when every chunk is empty or the
\* temporary directory is missing and recombine_geographic_chunks returns None.
C22_EndsInTerminalState ==
  ([]~cancelled) => <>(task.complete /\ task.status \in {"OK", "ERROR"})

====
